---- MODULE Spec2Model ----
(***************************************************************************)
(* Model of plot-electricity (src/app.rs): the entry parser                *)
(* UsageEntry::parse, the document parser UsageData::parse and the part of *)
(* TemplateApp::update that loads a file and renders the date picker.      *)
(*                                                                         *)
(* Text is a sequence of one-character strings, so that splitting,         *)
(* numeral parsing and line counting are computed rather than assumed.     *)
(* The input alphabet of the model has no letter that a float numeral may  *)
(* contain ("e", "inf", "nan"), so a numeral is sign, digits and a point.  *)
(***************************************************************************)
EXTENDS Integers, Sequences, FiniteSets, TLC

VARIABLES
    error,      \* TemplateApp.error : Option<String>, <<>> or <<message>>
    data,       \* TemplateApp.data  : Option<UsageData>, <<>> or <<document>>
    year,       \* TemplateApp.year  : u16
    month,      \* TemplateApp.month : u8
    day,        \* TemplateApp.day   : u8
    panic,      \* "none", or which unwrap() aborted the process
    file,       \* the text read by the last Open, <<>> or <<text>>
    input,      \* argument of a UsageData::parse call
    result,     \* <<>> before the call returns, else <<its outcome>>
    line,       \* argument of a UsageEntry::parse call
    entry       \* <<>> before the call returns, else <<its outcome>>

vars == <<error, data, year, month, day, panic, file, input, result, line, entry>>

shellVars == <<error, data, year, month, day, panic, file>>
docVars == <<input, result>>
entryVars == <<line, entry>>

-----------------------------------------------------------------------------
(* Bounds of the model                                                     *)

MaxLines == 3       \* data lines after the header in a checked document
MaxFields == 8      \* comma-separated fields in a checked entry line

-----------------------------------------------------------------------------
(* Text helpers                                                            *)

Digits == <<"0","1","2","3","4","5","6","7","8","9">>

IsDigit(c) == \E i \in 1..10 : Digits[i] = c

DigitVal(c) == (CHOOSE i \in 1..10 : Digits[i] = c) - 1

\* index of the first occurrence of character c in s, 0 when absent
Find(s, c) ==
    IF \E i \in 1..Len(s) : s[i] = c
    THEN CHOOSE i \in 1..Len(s) : s[i] = c /\ \A j \in 1..(i-1) : s[j] # c
    ELSE 0

\* str::split(sep): always at least one piece, "" gives one empty piece
RECURSIVE Split(_, _)
Split(s, sep) ==
    LET i == Find(s, sep) IN
    IF i = 0 THEN <<s>>
    ELSE <<SubSeq(s, 1, i-1)>> \o Split(SubSeq(s, i+1, Len(s)), sep)

\* str::split_once(sep): <<>> for None, <<before, after>> for Some
SplitOnce(s, sep) ==
    LET i == Find(s, sep) IN
    IF i = 0 THEN <<>>
    ELSE <<SubSeq(s, 1, i-1), SubSeq(s, i+1, Len(s))>>

RECURSIVE Join(_, _)
Join(parts, sep) ==
    IF Len(parts) = 0 THEN <<>>
    ELSE IF Len(parts) = 1 THEN parts[1]
    ELSE parts[1] \o <<sep>> \o Join(Tail(parts), sep)

-----------------------------------------------------------------------------
(* Results: anyhow::Result<T>, plus the abort of the process by a panic    *)

NoText == <<>>

Ok(v) == [kind |-> "Ok", value |-> v]

\* an anyhow::Error: root message with its interpolated argument, and the
\* number of the "On line N" context wrapped around it (0 when unwrapped)
Err(m, a) == [kind |-> "Err", ctx |-> 0, msg |-> m, arg |-> a]

Panicked == [kind |-> "Panic"]

\* <T as FromStr>::from_str for an unsigned integer of the given maximum
RECURSIVE ParseDigits(_, _, _)
ParseDigits(s, acc, max) ==
    IF Len(s) = 0 THEN Ok(acc)
    ELSE IF ~IsDigit(s[1]) THEN Err("invalid digit found in string", NoText)
    ELSE IF acc * 10 + DigitVal(s[1]) > max
         THEN Err("number too large to fit in target type", NoText)
    ELSE ParseDigits(Tail(s), acc * 10 + DigitVal(s[1]), max)

ParseUInt(s, max) ==
    IF Len(s) = 0 THEN Err("cannot parse integer from empty string", NoText)
    ELSE IF s = <<"+">> \/ s = <<"-">>
         THEN Err("invalid digit found in string", NoText)
    ELSE IF s[1] = "+" THEN ParseDigits(Tail(s), 0, max)
    ELSE ParseDigits(s, 0, max)

U8Max == 255
U16Max == 65535

ParseU8(s) == ParseUInt(s, U8Max)
ParseU16(s) == ParseUInt(s, U16Max)

\* a float is kept as <<mantissa, number of decimal places>>, normalised
RECURSIVE Normalize(_)
Normalize(v) ==
    IF v[2] > 0 /\ v[1] % 10 = 0 THEN Normalize(<<v[1] \div 10, v[2] - 1>>)
    ELSE v

RECURSIVE DigitsValue(_, _)
DigitsValue(s, acc) ==
    IF Len(s) = 0 THEN acc ELSE DigitsValue(Tail(s), acc * 10 + DigitVal(s[1]))

AllDigits(s) == \A i \in 1..Len(s) : IsDigit(s[i])

\* <f64 as FromStr>::from_str: no trimming of white space, optional sign,
\* digits with at most one point and at least one digit
ParseF64(s) ==
    LET signed == Len(s) > 0 /\ (s[1] = "+" \/ s[1] = "-")
        neg == Len(s) > 0 /\ s[1] = "-"
        body == IF signed THEN Tail(s) ELSE s
        dot == Find(body, ".")
        ip == IF dot = 0 THEN body ELSE SubSeq(body, 1, dot - 1)
        fp == IF dot = 0 THEN <<>> ELSE SubSeq(body, dot + 1, Len(body))
        mant == DigitsValue(ip \o fp, 0)
    IN
    IF AllDigits(ip) /\ AllDigits(fp) /\ Len(ip) + Len(fp) > 0
    THEN Ok(Normalize(<<IF neg THEN 0 - mant ELSE mant, Len(fp)>>))
    ELSE Err("invalid float literal", NoText)

FMul(a, b) == Normalize(<<a[1] * b[1], a[2] + b[2]>>)

One == <<1, 0>>

-----------------------------------------------------------------------------
(* Literals of the program                                                 *)

ElectricUsage == <<"E","l","e","c","t","r","i","c"," ","u","s","a","g","e">>

KWh == <<"k","W","h">>

HeaderLine == <<"T","Y","P","E",",","D","A","T","E",",","S","T","A","R","T"," ","T","I","M","E",",","E","N","D"," ","T","I","M","E",",","U","S","A","G","E",",","U","N","I","T","S",",","N","O","T","E","S">>

MsgMinutes == "Program is illequiped to handle non-zero minutes"
MsgExtra == "Extra entries in the line"
MsgAddress == "Expected an address at the top of the file"
MsgBlank == "Expected second line to be blank"
MsgHeaders == "Incorrect headers. Format must have changed or something. Sorry"

-----------------------------------------------------------------------------
(* UsageEntry::parse                                                       *)

\* the date field: month, day, year in text order, stored (year, month, day)
ParseDate(date_str) ==
    LET date_parts == Split(date_str, "/")
        m == ParseU8(date_parts[1])
        d == IF Len(date_parts) >= 2 THEN ParseU8(date_parts[2])
             ELSE Err("Expected Day", NoText)
        y == IF Len(date_parts) >= 3 THEN ParseU16(date_parts[3])
             ELSE Err("Expected Year", NoText)
    IN
    IF m.kind = "Err" THEN m
    ELSE IF d.kind = "Err" THEN d
    ELSE IF y.kind = "Err" THEN y
    ELSE Ok(<<y.value, m.value, d.value>>)

HemidayOffset(hemiday) ==
    IF hemiday = <<"A","M">> \/ hemiday = <<"a","m">> THEN Ok(0)
    ELSE IF hemiday = <<"P","M">> \/ hemiday = <<"p","m">> THEN Ok(12)
    ELSE Err("Unknown hemiday, AM/PM or am/pm accepted", hemiday)

\* the hour taken without the reduction modulo 12
HourMod_NoWrap(h) == h

HourMod(h) == h % 12

\* the hour numeral parsed before the minutes are looked at
ParseInterval_HourFirst(interval_str) ==
    LET a == SplitOnce(interval_str, ":") IN
    IF a = <<>> THEN Err("Invalid date", interval_str)
    ELSE
    LET b == SplitOnce(a[2], " ") IN
    IF b = <<>> THEN Err("Invalid date", interval_str)
    ELSE
    LET hour == ParseU8(a[1]) IN
    IF hour.kind = "Err" THEN hour
    ELSE IF b[1] # <<"0","0">> THEN Err(MsgMinutes, NoText)
    ELSE
    LET off == HemidayOffset(b[2]) IN
    IF off.kind = "Err" THEN off
    ELSE Ok(HourMod(hour.value) + off.value)

\* one START TIME or END TIME field, "H:MM X"
ParseInterval(interval_str) ==
    LET a == SplitOnce(interval_str, ":") IN
    IF a = <<>> THEN Err("Invalid date", interval_str)
    ELSE
    LET b == SplitOnce(a[2], " ") IN
    IF b = <<>> THEN Err("Invalid date", interval_str)
    ELSE IF b[1] # <<"0","0">> THEN Err(MsgMinutes, NoText)
    ELSE
    LET hour == ParseU8(a[1]) IN
    IF hour.kind = "Err" THEN hour
    ELSE
    LET off == HemidayOffset(b[2]) IN
    IF off.kind = "Err" THEN off
    ELSE Ok(HourMod(hour.value) + off.value)

UnitMultiplier(unit) ==
    IF unit = KWh THEN Ok(One) ELSE Err("Unknown unit", unit)

\* the check for an eighth field left out
NoExtraFields_Unchecked(fields) == TRUE

NoExtraFields(fields) == Len(fields) <= 7

UsageEntry_parse(l) ==
    LET f == Split(l, ",") IN
    IF f[1] # ElectricUsage THEN Err("Unknown entry type", f[1])
    ELSE IF Len(f) < 2
         THEN Err("Insufficient entries in line, expected date.", NoText)
    ELSE
    LET date == ParseDate(f[2]) IN
    IF date.kind = "Err" THEN date
    ELSE IF Len(f) < 3
         THEN Err("Insuffiecient entries in line, expected start time", NoText)
    ELSE
    LET start == ParseInterval(f[3]) IN
    IF start.kind = "Err" THEN start
    ELSE IF Len(f) < 4
         THEN Err("Insuffiecient entries in line, expected end time", NoText)
    ELSE
    LET end == ParseInterval(f[4]) IN
    IF end.kind = "Err" THEN end
    ELSE IF Len(f) < 6
         THEN Err("Insufficient entries in line, expected usage and unit", NoText)
    ELSE
    LET scalar == ParseF64(f[5]) IN
    IF scalar.kind = "Err" THEN Panicked
    ELSE
    LET mult == UnitMultiplier(f[6]) IN
    IF mult.kind = "Err" THEN mult
    ELSE IF Len(f) < 7
         THEN Err("Expected final entry for note (may be empty, but comma is expected)", NoText)
    ELSE IF ~NoExtraFields(f) THEN Err(MsgExtra, NoText)
    ELSE Ok([date |-> date.value,
             interval_start_hour |-> start.value,
             interval_end_hour |-> end.value,
             kilowatt_hours |-> FMul(scalar.value, mult.value),
             note |-> f[7]])

-----------------------------------------------------------------------------
(* UsageData::parse                                                        *)

\* the number that with_context puts in "On line N" for the entry whose
\* index among the enumerated (non-empty) lines is i, counted from 0
ContextLine(i) == i + 3

WithContext(e, n) == [e EXCEPT !.ctx = n]

NonEmpty(s) == Len(s) > 0

\* .map(parse).collect::<Result<Vec<_>, _>>(): stops at the first error
RECURSIVE CollectEntries(_, _, _)
CollectEntries(ls, i, acc) ==
    IF i > Len(ls) THEN Ok(acc)
    ELSE
    LET r == UsageEntry_parse(ls[i]) IN
    IF r.kind = "Ok" THEN CollectEntries(ls, i + 1, Append(acc, r.value))
    ELSE IF r.kind = "Err" THEN WithContext(r, ContextLine(i - 1))
    ELSE Panicked

UsageData_parse(text) ==
    LET lines == Split(text, "\n") IN
    IF Len(lines) < 1 THEN Err(MsgAddress, NoText)
    ELSE IF ~(Len(lines) >= 2 /\ lines[2] = <<>>) THEN Err(MsgBlank, NoText)
    ELSE IF ~(Len(lines) >= 3 /\ lines[3] = HeaderLine) THEN Err(MsgHeaders, NoText)
    ELSE
    LET r == CollectEntries(SelectSeq(SubSeq(lines, 4, Len(lines)), NonEmpty), 1, <<>>) IN
    IF r.kind = "Ok" THEN Ok([address |-> lines[1], entries |-> r.value])
    ELSE r

\* anyhow::Error::to_string(): the outermost message of the chain only
Display(e) ==
    IF e.ctx > 0 THEN [text |-> "On line", n |-> e.ctx, arg |-> NoText]
    ELSE [text |-> e.msg, n |-> 0, arg |-> e.arg]

-----------------------------------------------------------------------------
(* chrono::NaiveDate::from_ymd_opt                                         *)

IsLeap(y) == (y % 4 = 0 /\ y % 100 # 0) \/ y % 400 = 0

DaysIn(y, m) ==
    IF m = 2 THEN (IF IsLeap(y) THEN 29 ELSE 28)
    ELSE IF m \in {4, 6, 9, 11} THEN 30
    ELSE 31

ValidDate(y, m, d) == m \in 1..12 /\ d \in 1..DaysIn(y, m)

-----------------------------------------------------------------------------
(* Inputs: entry lines are joined from fields, documents from lines        *)

TypeFields ==
    {ElectricUsage, <<"G","a","s">>}

DateFields ==
    {<<"0","6","/","2","1","/","2","0","2","5">>,
     <<"0","2","/","3","1","/","2","0","2","5">>,
     <<"6","/","2","1">>,
     <<"2","5","6","/","1","/","2","0","2","5">>}

TimeFields ==
    {<<"1",":","0","0"," ","A","M">>,
     <<"1","2",":","0","0"," ","A","M">>,
     <<"1","2",":","0","0"," ","P","M">>,
     <<"1",":","0","0"," ","P","M">>,
     <<"1","1",":","0","0"," ","p","m">>,
     <<"1","3",":","0","0"," ","a","m">>,
     <<"2","5","5",":","0","0"," ","P","M">>,
     <<"2","5","6",":","0","0"," ","A","M">>,
     <<"1",":","1","5"," ","A","M">>,
     <<"1",":","1","5"," ","X","M">>,
     <<"1",":","0","0"," ","X","M">>,
     <<"1",":","0","0">>,
     <<"x",":","1","5"," ","A","M">>}

UsageFields ==
    {<<"0",".","5"," ">>,
     <<"0",".","5">>,
     <<"1">>}

UnitFields ==
    {KWh, <<"M","W","h">>}

NoteFields ==
    {<<>>, <<"n">>}

\* a trailing field beyond the seventh
ExtraField == <<"x">>

RECURSIVE Extras(_)
Extras(n) == IF n <= 0 THEN <<>> ELSE <<ExtraField>> \o Extras(n - 1)

FieldLists ==
    {<<t, d, s, e, u, k, n>> \o Extras(MaxFields - 7) :
        t \in TypeFields, d \in DateFields, s \in TimeFields, e \in TimeFields,
        u \in UsageFields, k \in UnitFields, n \in NoteFields}

EntryLines ==
    {Join(SubSeq(fl, 1, k), ",") : fl \in FieldLists, k \in 1..MaxFields}

ScenarioAAddress == <<"1","2","3"," ","M","a","i","n"," ","S","t">>

\* the data line of Scenario A: the usage numeral is followed by a space
ScenarioALine == Join(<<ElectricUsage, <<"0","6","/","2","1","/","2","0","2","5">>, <<"1",":","0","0"," ","A","M">>, <<"2",":","0","0"," ","A","M">>,
                        <<"0",".","5"," ">>, KWh, <<>>>>, ",")

LineGood == Join(<<ElectricUsage, <<"0","6","/","2","1","/","2","0","2","5">>, <<"1",":","0","0"," ","A","M">>, <<"2",":","0","0"," ","A","M">>,
                   <<"0",".","5">>, KWh, <<>>>>, ",")

LineGood2 == Join(<<ElectricUsage, <<"0","1","/","1","5","/","2","0","2","4">>, <<"1","2",":","0","0"," ","P","M">>, <<"1",":","0","0"," ","P","M">>,
                    <<"1">>, KWh, <<"n">>>>, ",")

\* parses, but is no calendar date
LineFeb31 == Join(<<ElectricUsage, <<"0","2","/","3","1","/","2","0","2","5">>, <<"1",":","0","0"," ","A","M">>, <<"2",":","0","0"," ","A","M">>,
                    <<"0",".","5">>, KWh, <<>>>>, ",")

LineMinutes == Join(<<ElectricUsage, <<"0","6","/","2","1","/","2","0","2","5">>, <<"1",":","1","5"," ","A","M">>, <<"2",":","0","0"," ","A","M">>,
                      <<"0",".","5">>, KWh, <<>>>>, ",")

LineType == Join(<<<<"G","a","s">>, <<"0","6","/","2","1","/","2","0","2","5">>, <<"1",":","0","0"," ","A","M">>, <<"2",":","0","0"," ","A","M">>,
                   <<"0",".","5">>, KWh, <<>>>>, ",")

LineExtra == LineGood \o <<",">> \o ExtraField

DocLines ==
    {ScenarioALine, LineGood, LineGood2, LineFeb31, LineMinutes, LineType,
     LineExtra, <<>>}

GoodPrefix == <<ScenarioAAddress, <<>>, HeaderLine>>

Prefixes ==
    {GoodPrefix,
     <<<<>>, <<>>, HeaderLine>>,
     <<ScenarioAAddress, ExtraField, HeaderLine>>,
     <<ScenarioAAddress, <<>>, KWh>>,
     <<ScenarioAAddress, <<>>>>,
     <<ScenarioAAddress>>,
     << <<>> >>}

Bodies == UNION {[1..k -> DocLines] : k \in 0..MaxLines}

Documents == {Join(p \o b, "\n") : p \in Prefixes, b \in Bodies}

ScenarioA == Join(GoodPrefix \o <<ScenarioALine, <<>>>>, "\n")

\* the files the user opens in the shell
ShellDocs ==
    {ScenarioA,
     Join(GoodPrefix \o <<LineGood, <<>>>>, "\n"),
     Join(GoodPrefix \o <<LineGood, LineGood2>>, "\n"),
     Join(GoodPrefix \o <<LineGood, LineFeb31>>, "\n"),
     Join(GoodPrefix, "\n"),
     Join(GoodPrefix \o <<LineGood2, <<>>, LineMinutes>>, "\n"),
     Join(GoodPrefix \o <<LineType>>, "\n"),
     Join(<<ScenarioAAddress, <<>>, KWh, LineGood>>, "\n"),
     <<>>}

\* the dates the user picks in the date picker
PickDates == {<<2024, 2, 29>>, <<2025, 6, 22>>}

-----------------------------------------------------------------------------
(* TemplateApp                                                             *)

\* Default for TemplateApp
ShellInit ==
    /\ error = <<>>
    /\ data = <<>>
    /\ year = 2025
    /\ month = 6
    /\ day = 21
    /\ panic = "none"
    /\ file = <<>>

\* the central panel: from_ymd_opt(..).unwrap() when a document is loaded
RenderPanic(d, y, m, dd) ==
    IF d # <<>> /\ ~ValidDate(y, m, dd) THEN "date" ELSE "none"

\* the date the shell selects after a successful load
SelectedAfterLoad(doc) ==
    IF Len(doc.entries) > 0 THEN doc.entries[Len(doc.entries)].date
    ELSE <<year, month, day>>

\* Ok(data) arm of the match on the parse result, then the central panel
OpenOk(doc) ==
    LET sel == SelectedAfterLoad(doc) IN
    /\ year' = sel[1]
    /\ month' = sel[2]
    /\ day' = sel[3]
    /\ data' = <<doc>>
    /\ UNCHANGED error
    /\ panic' = RenderPanic(<<doc>>, sel[1], sel[2], sel[3])

\* the Err arm dropping the loaded document
OpenErr_DropsData(e) ==
    /\ error' = <<Display(e)>>
    /\ data' = <<>>
    /\ UNCHANGED <<year, month, day>>
    /\ panic' = "none"

\* Err(error) arm of the match on the parse result, then the central panel
OpenErr(e) ==
    /\ error' = <<Display(e)>>
    /\ UNCHANGED <<data, year, month, day>>
    /\ panic' = RenderPanic(data, year, month, day)

\* a frame in which File > Open is clicked and the file f is read
UpdateOpen(f) ==
    /\ panic = "none"
    /\ file' = <<f>>
    /\ \E r \in {UsageData_parse(f)} :
       IF r.kind = "Panic" THEN
           /\ panic' = "usage"
           /\ UNCHANGED <<error, data, year, month, day>>
       ELSE IF r.kind = "Err" THEN OpenErr(r)
       ELSE OpenOk(r.value)
    /\ UNCHANGED <<docVars, entryVars>>

\* a frame in which "Clear Error" is clicked
UpdateClearError ==
    /\ panic = "none"
    /\ error # <<>>
    /\ error' = <<>>
    /\ panic' = RenderPanic(data, year, month, day)
    /\ UNCHANGED <<data, year, month, day, file, docVars, entryVars>>

\* a frame in which the user picks the date p in the date picker
UpdatePickDate(p) ==
    /\ panic = "none"
    /\ data # <<>>
    /\ IF ValidDate(year, month, day)
       THEN /\ year' = p[1]
            /\ month' = p[2]
            /\ day' = p[3]
            /\ UNCHANGED panic
       ELSE /\ panic' = "date"
            /\ UNCHANGED <<year, month, day>>
    /\ UNCHANGED <<error, data, file, docVars, entryVars>>

Init ==
    /\ ShellInit
    /\ input = <<>> /\ result = <<>>
    /\ line = <<>> /\ entry = <<>>

Next ==
    \/ \E f \in ShellDocs : UpdateOpen(f)
    \/ UpdateClearError
    \/ \E p \in PickDates : UpdatePickDate(p)

Spec == Init /\ [][Next]_vars

-----------------------------------------------------------------------------
(* One call of UsageData::parse on each checked document                   *)

ParseDocument ==
    /\ result = <<>>
    /\ result' = <<UsageData_parse(input)>>
    /\ UNCHANGED <<input, shellVars, entryVars>>

InitDoc ==
    /\ ShellInit
    /\ input \in Documents /\ result = <<>>
    /\ line = <<>> /\ entry = <<>>

NextDoc == ParseDocument

SpecDoc == InitDoc /\ [][NextDoc]_vars

-----------------------------------------------------------------------------
(* One call of UsageEntry::parse on each checked line                      *)

ParseEntry ==
    /\ entry = <<>>
    /\ entry' = <<UsageEntry_parse(line)>>
    /\ UNCHANGED <<line, shellVars, docVars>>

InitEntry ==
    /\ ShellInit
    /\ input = <<>> /\ result = <<>>
    /\ line \in EntryLines /\ entry = <<>>

NextEntry == ParseEntry

SpecEntry == InitEntry /\ [][NextEntry]_vars

-----------------------------------------------------------------------------
(* Properties                                                              *)

InputLines == Split(input, "\n")

\* the header lines of the parsed document are the accepted ones
HeaderAccepted ==
    /\ Len(InputLines) >= 3
    /\ InputLines[2] = <<>>
    /\ InputLines[3] = HeaderLine

\* physical (1-based) numbers of the non-empty lines after the header
DataLineNumbers == {i \in 4..Len(InputLines) : InputLines[i] # <<>>}

LineFields == Split(line, ",")

\* MM/DD/YYYY
DocumentedDate(s) ==
    /\ Len(s) = 10
    /\ \A i \in 1..10 : IF i \in {3, 6} THEN s[i] = "/" ELSE IsDigit(s[i])

\* H:00 AM|PM with H in 1..12
DocumentedTime(s) ==
    LET a == SplitOnce(s, ":") IN
    /\ a # <<>>
    /\ Len(a[1]) \in 1..2 /\ AllDigits(a[1]) /\ DigitsValue(a[1], 0) \in 1..12
    /\ a[2] \in {<<"0","0"," ","A","M">>, <<"0","0"," ","P","M">>}

\* <float> followed by one space
DocumentedUsage(s) ==
    /\ Len(s) >= 2
    /\ s[Len(s)] = " "
    /\ AllDigits(SelectSeq(SubSeq(s, 1, Len(s) - 1), LAMBDA c : c # "."))
    /\ IsDigit(s[1])

DocumentedLine(l) ==
    LET f == Split(l, ",") IN
    /\ Len(f) = 7
    /\ f[1] = ElectricUsage
    /\ DocumentedDate(f[2])
    /\ DocumentedTime(f[3])
    /\ DocumentedTime(f[4])
    /\ DocumentedUsage(f[5])
    /\ f[6] = KWh

DocumentedDocument ==
    /\ HeaderAccepted
    /\ InputLines[1] # <<>>
    /\ \A i \in DataLineNumbers : DocumentedLine(InputLines[i])

ScenarioAResult ==
    [address |-> ScenarioAAddress,
     entries |-> <<[date |-> <<2025, 6, 21>>,
                    interval_start_hour |-> 1,
                    interval_end_hour |-> 2,
                    kilowatt_hours |-> <<5, 1>>,
                    note |-> <<>>]>>]

\* C1: every document of the documented shape (usage numeral followed by a
\* space) parses successfully, never an error or an abort, and Scenario A
\* gives one entry (2025,6,21), 1, 2, 0.5, "".
C1_DocumentedShapeParses ==
    (result # <<>> /\ DocumentedDocument) =>
        /\ result[1].kind = "Ok"
        /\ (input = ScenarioA => result[1].value = ScenarioAResult)

\* C2: the error of a failing entry line carries that line's 1-based
\* physical line number in the input text.
C2_PhysicalLineNumber ==
    (result # <<>> /\ HeaderAccepted /\ result[1].kind = "Err") =>
        /\ result[1].ctx \in DataLineNumbers
        /\ UsageEntry_parse(InputLines[result[1].ctx]).kind = "Err"
        /\ \A i \in DataLineNumbers :
              i < result[1].ctx => UsageEntry_parse(InputLines[i]).kind = "Ok"

\* C3: a load whose parse fails stores the error message and leaves the
\* loaded document and the selected year, month, day unchanged; the stored
\* document changes only in a load whose parse succeeds.
C3_FailedLoadKeepsData ==
    [][ /\ \A f \in ShellDocs :
              (UpdateOpen(f) /\ UsageData_parse(f).kind = "Err") =>
                  /\ error' = <<Display(UsageData_parse(f))>>
                  /\ data' = data
                  /\ <<year', month', day'>> = <<year, month, day>>
        /\ data' # data =>
              \E f \in ShellDocs :
                  /\ UpdateOpen(f)
                  /\ UsageData_parse(f).kind = "Ok"
                  /\ data' = <<UsageData_parse(f).value>>
      ]_vars

\* a failed load happened after a document had been loaded
C3_Witness ==
    /\ file # <<>>
    /\ UsageData_parse(file[1]).kind = "Err"
    /\ UsageData_parse(file[1]).ctx > 0
    /\ data # <<>>
    /\ Len(data[1].entries) > 0
    /\ error = <<Display(UsageData_parse(file[1]))>>
    /\ <<year, month, day>> = <<2024, 2, 29>>

\* C4: after a load that failed on an entry line, the stored message holds
\* the entry error's descriptive text together with the line annotation.
C4_MessageHasEntryError ==
    (file # <<>> /\ error # <<>> /\ UsageData_parse(file[1]).kind = "Err"
        /\ UsageData_parse(file[1]).ctx > 0) =>
        /\ error[1].n = UsageData_parse(file[1]).ctx
        /\ error[1].text = UsageData_parse(file[1]).msg
        /\ error[1].arg = UsageData_parse(file[1]).arg

\* the hour of a time field as the claim computes it: the numeral before
\* the colon modulo 12, plus 12 for PM/pm
ClockHour(s) ==
    LET a == SplitOnce(s, ":")
        b == SplitOnce(a[2], " ")
        h == DigitsValue(SelectSeq(a[1], IsDigit), 0)
    IN (h % 12) + (IF b[2] \in {<<"P","M">>, <<"p","m">>} THEN 12 ELSE 0)

\* C5: the hours of a successfully parsed entry are (H mod 12) plus 0 for
\* AM/am or 12 for PM/pm, lie in 0..23, and 12:00 AM, 12:00 PM, 1:00 PM
\* give 0, 12, 13.
C5_HoursIn24 ==
    (entry # <<>> /\ entry[1].kind = "Ok") =>
        LET e == entry[1].value IN
        /\ e.interval_start_hour = ClockHour(LineFields[3])
        /\ e.interval_end_hour = ClockHour(LineFields[4])
        /\ e.interval_start_hour \in 0..23
        /\ e.interval_end_hour \in 0..23
        /\ (LineFields[3] = <<"1","2",":","0","0"," ","A","M">> => e.interval_start_hour = 0)
        /\ (LineFields[3] = <<"1","2",":","0","0"," ","P","M">> => e.interval_start_hour = 12)
        /\ (LineFields[3] = <<"1",":","0","0"," ","P","M">> => e.interval_start_hour = 13)
        /\ (LineFields[4] = <<"1","2",":","0","0"," ","A","M">> => e.interval_end_hour = 0)
        /\ (LineFields[4] = <<"1","2",":","0","0"," ","P","M">> => e.interval_end_hour = 12)
        /\ (LineFields[4] = <<"1",":","0","0"," ","P","M">> => e.interval_end_hour = 13)

C5_Witness ==
    /\ entry # <<>>
    /\ entry[1].kind = "Ok"
    /\ LineFields[3] = <<"1","2",":","0","0"," ","P","M">>
    /\ LineFields[4] = <<"2","5","5",":","0","0"," ","P","M">>
    /\ entry[1].value.interval_start_hour = 12
    /\ entry[1].value.interval_end_hour = 15

\* C6: the empty text fails with the "expected address" error, and an
\* accepted address is line 1 verbatim.
C6_EmptyTextExpectedAddress ==
    result # <<>> =>
        /\ (input = <<>> =>
               result[1].kind = "Err" /\ result[1].msg = MsgAddress)
        /\ (result[1].kind = "Ok" => result[1].value.address = InputLines[1])

\* the field has a minutes part, and it is not "00"
NonZeroMinutes(s) ==
    LET a == SplitOnce(s, ":") IN
    /\ a # <<>>
    /\ SplitOnce(a[2], " ") # <<>>
    /\ SplitOnce(a[2], " ")[1] # <<"0","0">>

StartNonZero == Len(LineFields) >= 3 /\ NonZeroMinutes(LineFields[3])
EndNonZero == Len(LineFields) >= 4 /\ NonZeroMinutes(LineFields[4])

\* C7 as stated: every line whose START_TIME or END_TIME has minutes other
\* than "00" fails with the non-zero-minutes error and no other.
C7_Original ==
    (entry # <<>> /\ (StartNonZero \/ EndNonZero)) =>
        entry[1] = Err(MsgMinutes, NoText)

\* C7 amended: such a line never parses (nor aborts); it fails with the
\* non-zero-minutes error when every field before the first time field with
\* non-zero minutes is valid.
C7_NonZeroMinutesRejected ==
    (entry # <<>> /\ (StartNonZero \/ EndNonZero)) =>
        /\ entry[1].kind = "Err"
        /\ (/\ LineFields[1] = ElectricUsage
            /\ ParseDate(LineFields[2]).kind = "Ok"
            /\ (StartNonZero \/ ParseInterval(LineFields[3]).kind = "Ok"))
           => entry[1] = Err(MsgMinutes, NoText)

\* the hour numeral is bad too, and the end time is the offending field
C7_Witness ==
    /\ entry = <<Err(MsgMinutes, NoText)>>
    /\ ~StartNonZero
    /\ EndNonZero
    /\ LineFields[4] = <<"x",":","1","5"," ","A","M">>

\* the first seven fields are valid ones
SevenValid(f) ==
    /\ Len(f) >= 7
    /\ f[1] = ElectricUsage
    /\ ParseDate(f[2]).kind = "Ok"
    /\ ParseInterval(f[3]).kind = "Ok"
    /\ ParseInterval(f[4]).kind = "Ok"
    /\ ParseF64(f[5]).kind = "Ok"
    /\ f[6] = KWh

\* C8: parse_entry succeeds only on lines of exactly 7 fields; 7 valid
\* fields and an 8th or later one fail with the extra-entries error; 7 valid
\* fields with an empty 7th succeed with an empty note.
C8_ExactlySevenFields ==
    entry # <<>> =>
        /\ (entry[1].kind = "Ok" => Len(LineFields) = 7)
        /\ (SevenValid(LineFields) /\ Len(LineFields) >= 8
               => entry[1] = Err(MsgExtra, NoText))
        /\ (SevenValid(LineFields) /\ Len(LineFields) = 7 /\ LineFields[7] = <<>>
               => entry[1].kind = "Ok" /\ entry[1].value.note = <<>>)

C8_Witness ==
    /\ entry = <<Err(MsgExtra, NoText)>>
    /\ SevenValid(LineFields)
    /\ Len(LineFields) = 8

\* the non-empty lines after the header, in file order
DataLines == SelectSeq(SubSeq(InputLines, 4, Len(InputLines)), NonEmpty)

FailingIndexes ==
    {i \in 1..Len(DataLines) : UsageEntry_parse(DataLines[i]).kind = "Err"}

\* C9: once the header is accepted, the result is the error of the first
\* failing data line in file order, or else the document of the parses of
\* all non-empty data lines in file order.
C9_AllOrNothing ==
    (result # <<>> /\ HeaderAccepted) =>
        IF FailingIndexes # {}
        THEN LET i == CHOOSE i \in FailingIndexes :
                          \A j \in FailingIndexes : i <= j
                 e == UsageEntry_parse(DataLines[i])
             IN /\ result[1].kind = "Err"
                /\ result[1].msg = e.msg
                /\ result[1].arg = e.arg
        ELSE /\ result[1].kind = "Ok"
             /\ Len(result[1].value.entries) = Len(DataLines)
             /\ \A i \in 1..Len(DataLines) :
                   Ok(result[1].value.entries[i]) = UsageEntry_parse(DataLines[i])

\* C10: whenever a document is loaded the selected year, month, day is a
\* calendar date, and rendering the date picker does not abort.
C10_SelectedDateValid ==
    data # <<>> => (ValidDate(year, month, day) /\ panic # "date")

====
